---- MODULE Spec2Model ----
(***************************************************************************)
(* Two of the repository's shell variants, each a Shell struct driven by   *)
(* its own Run loop:                                                       *)
(*                                                                         *)
(*   - the job-control shell (src/unnamed/part_006, lines 1-437): a        *)
(*     readline loop, background jobs with one waitForJob goroutine each,  *)
(*     fg/bg/jobs, one handleSignals goroutine that reaps on SIGCHLD.      *)
(*     Its behaviours are those of Spec, and of FairSpec with the fair     *)
(*     scheduling of the waitForJob goroutines.                            *)
(*   - the pipeline shell (src/unnamed/part_005): '|' pipelines started   *)
(*     by runCommands, which spawns a handleSignals goroutine per          *)
(*     pipeline.  Its behaviours are those of PipeSpec.                    *)
(*                                                                         *)
(* Both structs have the fields history, interruptCount and signalChan;    *)
(* the model shares those variables, and each specification leaves the    *)
(* other variant's variables at their initial values.                     *)
(***************************************************************************)
EXTENDS Integers, Sequences, FiniteSets, TLC

(* ------------------------------ bounds -------------------------------- *)

\* background jobs started in one session of the job-control shell
MaxJobs == 2
\* non-blank lines read in one session of the job-control shell
MaxLines == 3

\* non-blank lines read in one session of the pipeline shell
MaxPipeLines == 2
\* '|'-separated segments of one line of the pipeline shell
MaxStages == 2
\* lines added to a history after it was loaded
MaxAdds == 3
(* ------------------------- program constants -------------------------- *)

maxHistorySize == 1000
\* maxItems: 1000 in history.New
maxItems == 1000
\* cap of make(chan os.Signal, 1)
signalChanCap == 1

\* exit codes a child is let to exit with (nonzero)
ExitCodes == {7}

VARIABLES
    pc,             \* position of the goroutine running Run
    history,        \* s.history (each line abstracted to one token)
    historyFile,    \* content of the history file on disk
    interruptCount, \* s.interruptCount
    signalChan,     \* s.signalChan: buffered signals, oldest first
    \* -- job-control shell
    jobs,           \* keys of the map s.jobs
    nextJobID,      \* s.nextJobID
    job,            \* the Job records ever allocated, by jobID (the heap)
    fgJob,          \* jobID foregroundJob is working on (0: none)
    fgCmd,          \* process of the foreground cmd.Run(): none/running/zombie/reaped
    aliases,        \* s.aliases: name -> the words shellquote.Split makes of its value
    lastErr,        \* the error executeCommand returned, until Run has printed it
    lastID,         \* history variable: the jobID the fg or bg call that returned
                    \* lastErr had parsed (0: none)
    log,            \* history variable: <<"register", id>> and <<"reclaim", id>>
                    \* events of the job table, in order
    \* -- pipeline shell
    cmds,           \* the []*exec.Cmd executeCommand built for the current line
    nPipes,         \* StdoutPipe calls executeCommand made for the current line
    started,        \* runCommands: stages of cmds started so far
    done,           \* runCommands: the done channel, oldest result first
    nrecv,          \* runCommands: results taken from done so far
    waits,          \* runCommands: cmd.Wait() calls made on stages of cmds
    procs,          \* line -> [live: its child processes still running, launch:
                    \* "starting" / "ok" / "failed", where its Start loop is or how
                    \* it ended], for the lines that have a live child process
    handlers,       \* the handleSignals goroutines, by the line that spawned them
    forced,         \* handleSignals has called os.Exit(1)
    intrInCmd,      \* history variable: interrupts taken from signalChan since the
                    \* running foreground pipeline was dispatched
    clean,          \* history variable: no interrupt was being handled when the
                    \* command was dispatched, and none was taken since
    preCount,       \* history variable: interruptCount when the command was dispatched
    further,        \* history variable: interrupts taken since a command last
                    \* completed clean (-1: the last command did not)
    \* -- package history
    items,          \* h.items
    itemsFile,      \* content of the file h.file
    hpc,            \* "new" before history.New has returned, "ready" after
    startLen,       \* history variable: lines in the history file at start-up
    added,          \* history variable: the items given to h.Add, in order
    entered         \* history variable: the lines given to s.addToHistory
                    \* after loadHistory, in order

jobState == <<jobs, nextJobID, job, fgJob, fgCmd, aliases, log>>
jobVars == <<jobState, lastErr, lastID>>
pipeVars == <<cmds, nPipes, started, done, nrecv, waits, procs, handlers, forced,
              intrInCmd, clean, preCount, further>>
histVars == <<items, itemsFile, hpc, startLen, added, entered>>
vars == <<pc, history, historyFile, interruptCount, signalChan, jobVars, pipeVars,
          histVars>>

(* ---------------------------- job statuses ---------------------------- *)

Running == <<"Running">>
Stopped == <<"Stopped">>
Done == <<"Done">>
Errored == <<"Errored">>
\* fmt.Sprintf("Exited (%d)", code)
Exited(c) == <<"Exited", c>>

\* the exit status of a child that has not ended, or whose status was
\* collected by a wait that discards it
NoOutcome == <<"none">>

\* how a child process ends
Outcomes == {<<"ok">>, <<"killed">>} \cup {<<"exit", c>> : c \in ExitCodes}

(* --------------------------- shared helpers ---------------------------- *)

\* s.history = append(s.history, command), cut to the last maxHistorySize
addToHistory(h, line) ==
    LET a == Append(h, line)
    IN  IF Len(a) > maxHistorySize
        THEN SubSeq(a, Len(a) - maxHistorySize + 1, Len(a))
        ELSE a

\* writeHistory(s.history, s.historyFile): the file holds the lines
saveHistory(h) == h

\* signal.Notify delivery: a non-blocking send, dropped when the buffer is full
notify(ch, sig) == IF Len(ch) < signalChanCap THEN Append(ch, sig) ELSE ch

\* s.interruptCount = 0 after executeCommand has returned
resetInterruptKeep(c) == c
resetInterrupt(c) == 0

\* the process runs: it has not exited and no goroutine has panicked
Alive == pc \notin {"exited", "panicked"}

(* ======================= the job-control shell ======================== *)

\* ExitError.ExitCode(): the exit code, -1 for a process a signal killed
ExitCode(outcome) == IF outcome[1] = "exit" THEN outcome[2] ELSE 0 - 1

\* cmd.Wait() once the process has ended: the caller collects the exit
\* status if the process is still a zombie (nil for success, *ExitError
\* otherwise); if another wait took the status first, Wait fails with an
\* error that is no *ExitError
cmdWait(proc, outcome) ==
    IF proc = "zombie"
    THEN IF outcome = <<"ok">> THEN <<"nil">> ELSE <<"ExitError", ExitCode(outcome)>>
    ELSE <<"error">>

\* waitForJob's status for the error cmd.Wait returned
statusOfStopped(err) == Stopped
statusOf(err) ==
    IF err # <<"nil">>
    THEN IF err[1] = "ExitError" THEN Exited(err[2]) ELSE Errored
    ELSE Done

\* what runExternal assigns to cmd.Stdin, cmd.Stdout and cmd.Stderr of a
\* background command before cmd.Start()
bgStdin == "nil"
bgStdout == "nil"
bgStderr == "nil"

\* the file cmd.Start() gives the child for a stream: the null device when the
\* field is nil, the file of the field otherwise
childFile(f) == IF f = "nil" THEN "os.DevNull" ELSE f

NewJob(id) ==
    [status |-> Running, jobID |-> id, stopChan |-> "open",
     proc |-> "running", outcome |-> NoOutcome,
     wpc |-> "wait", err |-> <<"nil">>, notes |-> 0,
     stdin |-> childFile(bgStdin), stdout |-> childFile(bgStdout),
     stderr |-> childFile(bgStderr)]

IDs == DOMAIN job

InitShared ==
    /\ pc = "readline"
    /\ history = <<>>
    /\ historyFile = <<>>
    /\ interruptCount = 0
    /\ signalChan = <<>>

InitJobs ==
    /\ jobs = {}
    /\ nextJobID = 1
    /\ job = <<>>
    /\ fgJob = 0
    /\ fgCmd = "none"
    /\ aliases = <<>>
    /\ lastErr = ""
    /\ lastID = 0
    /\ log = <<>>

\* a line was read, trimmed, found non-blank and added to the history
LineRead ==
    /\ pc = "readline"
    /\ Len(history) < MaxLines
    /\ history' = addToHistory(history, "line")

\* executeCommand returned err ("" for nil) to Run, from fg or bg with the
\* jobID id parsed (0 otherwise): with no error Run clears the counter and
\* loops, with an error it has the error to print first
ReturnedFor(err, id) ==
    /\ lastErr' = err
    /\ lastID' = IF err = "" THEN 0 ELSE id
    /\ IF err = ""
       THEN /\ pc' = "readline"
            /\ interruptCount' = resetInterrupt(interruptCount)
       ELSE /\ pc' = "failed"
            /\ UNCHANGED interruptCount

Returned(err) == ReturnedFor(err, 0)

\* Run: fmt.Fprintf(os.Stderr, "Error: %v\n", err), then the counter is cleared
Run_printError ==
    /\ UNCHANGED <<pipeVars, histVars>>
    /\ pc = "failed"
    /\ pc' = "readline"
    /\ lastErr' = ""
    /\ lastID' = 0
    /\ interruptCount' = resetInterrupt(interruptCount)
    /\ UNCHANGED <<history, historyFile, signalChan, jobState>>

\* Run: rl.Readline() returns readline.ErrInterrupt
Run_ErrInterrupt ==
    /\ UNCHANGED <<pipeVars, histVars>>
    /\ pc = "readline"
    /\ interruptCount' = interruptCount + 1
    /\ IF interruptCount' >= 2
       THEN /\ pc' = "exited"
            /\ historyFile' = saveHistory(history)
       ELSE UNCHANGED <<pc, historyFile>>
    /\ UNCHANGED <<history, signalChan, jobVars>>

\* Run: rl.Readline() returns io.EOF
Run_EOF ==
    /\ UNCHANGED <<pipeVars, histVars>>
    /\ pc = "readline"
    /\ pc' = "exited"
    /\ historyFile' = saveHistory(history)
    /\ UNCHANGED <<history, interruptCount, signalChan, jobVars>>

\* executeCommand: case "exit"
Run_exit ==
    /\ UNCHANGED <<pipeVars, histVars>>
    /\ LineRead
    /\ historyFile' = saveHistory(history')
    /\ pc' = "exited"
    /\ UNCHANGED <<interruptCount, signalChan, jobVars>>

\* executeCommand: history, cd, export, set, and alias with a bad argument
\* (err: what the builtin returned)
Run_builtin ==
    /\ UNCHANGED <<pipeVars, histVars>>
    /\ LineRead
    /\ \E err \in {"", "invalid syntax"} : Returned(err)
    /\ UNCHANGED <<historyFile, signalChan, jobState>>

\* the alias name of the lines `alias e=...`
AliasNames == {"e"}
\* shellquote.Split of the value an alias is given: `alias e=` gives no words
AliasValues == {<<>>, <<"history">>}

\* setAlias: s.aliases[kv[0]] = kv[1]
setAlias ==
    /\ UNCHANGED <<pipeVars, histVars>>
    /\ LineRead
    /\ \E n \in AliasNames, v \in AliasValues :
         aliases' = (n :> v) @@ aliases
    /\ Returned("")
    /\ UNCHANGED <<historyFile, signalChan, jobs, nextJobID, job, fgJob, fgCmd, log>>

\* parts = append(aliasParts, parts[1:]...)
expandAlias(aliasParts, rest) == aliasParts \o rest

\* executeCommand of a line whose first word is an alias, followed by the
\* words rest: the alias is expanded, then switch parts[0] indexes parts,
\* which panics when parts is empty; the alias values here expand to history
Run_alias ==
    /\ UNCHANGED <<pipeVars, histVars>>
    /\ LineRead
    /\ \E n \in DOMAIN aliases, rest \in {<<>>, <<"arg">>} :
         LET parts == expandAlias(aliases[n], rest)
         IN  IF Len(parts) = 0
             THEN /\ pc' = "panicked"
                  /\ UNCHANGED <<interruptCount, lastErr, lastID>>
             ELSE Returned("")
    /\ UNCHANGED <<historyFile, signalChan, jobState>>

\* executeCommand: case "jobs"
listJobs ==
    /\ UNCHANGED <<pipeVars, histVars>>
    /\ LineRead
    /\ Returned("")
    /\ UNCHANGED <<historyFile, signalChan, jobState>>

\* s.jobs[s.nextJobID] = job; s.nextJobID++
registerReuse(id) == Cardinality(jobs) + 1
register(id) == id + 1

\* runExternal with a trailing "&"; startOK: whether cmd.Start() succeeds
runExternal_bg ==
    /\ UNCHANGED <<pipeVars, histVars>>
    /\ LineRead
    /\ \E startOK \in BOOLEAN :
        IF ~startOK
        THEN /\ Returned("start")
             /\ UNCHANGED jobState
        ELSE /\ nextJobID <= MaxJobs
             /\ job' = (nextJobID :> NewJob(nextJobID)) @@ job
             /\ jobs' = jobs \cup {nextJobID}
             /\ nextJobID' = register(nextJobID)
             /\ log' = Append(log, <<"register", nextJobID>>)
             /\ Returned("")
             /\ UNCHANGED <<fgJob, fgCmd, aliases>>
    /\ UNCHANGED <<historyFile, signalChan>>

\* runExternal without "&": cmd.Run() is Start, then Wait
runExternal_fg ==
    /\ UNCHANGED <<pipeVars, histVars>>
    /\ LineRead
    /\ \E startOK \in BOOLEAN :
        IF ~startOK
        THEN /\ Returned("start")
             /\ UNCHANGED fgCmd
        ELSE /\ fgCmd' = "running"
             /\ pc' = "run"
             /\ UNCHANGED <<interruptCount, lastErr, lastID>>
    /\ UNCHANGED <<historyFile, signalChan, jobs, nextJobID, job, fgJob,
                   aliases, log>>

\* the foreground process ends; the kernel raises SIGCHLD
fgExit ==
    /\ UNCHANGED <<pipeVars, histVars>>
    /\ pc = "run"
    /\ fgCmd = "running"
    /\ fgCmd' = "zombie"
    /\ signalChan' = notify(signalChan, "SIGCHLD")
    /\ UNCHANGED <<pc, history, historyFile, interruptCount, jobs,
                   nextJobID, job, fgJob, aliases, lastErr, lastID, log>>

\* cmd.Run() returns: with the exit status, or with an error if the reaper took it
runExternal_fgReturn ==
    /\ UNCHANGED <<pipeVars, histVars>>
    /\ pc = "run"
    /\ fgCmd \in {"zombie", "reaped"}
    /\ \E failed \in BOOLEAN :
         /\ (fgCmd = "reaped") => failed
         /\ Returned(IF failed THEN "wait" ELSE "")
    /\ fgCmd' = "none"
    /\ UNCHANGED <<history, historyFile, signalChan, jobs, nextJobID, job, fgJob,
                   aliases, log>>

\* the fg/bg argument: len(parts), whether Sscanf("%d") parses it, its value
JobArgs ==
    {[argc |-> 1, numeric |-> TRUE, id |-> 0], [argc |-> 2, numeric |-> FALSE, id |-> 0]}
    \cup [argc : {2}, numeric : {TRUE}, id : 0..(MaxJobs + 1)]

\* job, ok := s.jobs[jobID]
lookupAny(js, id) == id \in IDs
lookup(js, id) == id \in js

\* delete(s.jobs, jobID)
deleteJobKeep(js, id) == js
deleteJob(js, id) == js \ {id}

\* foregroundJob up to delete(s.jobs, jobID)
foregroundJob ==
    /\ UNCHANGED <<pipeVars, histVars>>
    /\ LineRead
    /\ \E a \in JobArgs :
        IF a.argc # 2
        THEN /\ Returned("fg: invalid syntax")
             /\ UNCHANGED jobState
        ELSE IF ~a.numeric
        THEN /\ Returned("fg: invalid job ID")
             /\ UNCHANGED jobState
        ELSE IF ~lookup(jobs, a.id)
        THEN /\ ReturnedFor("fg: job not found", a.id)
             /\ UNCHANGED jobState
        ELSE /\ jobs' = deleteJob(jobs, a.id)
             /\ log' = Append(log, <<"reclaim", a.id>>)
             /\ fgJob' = a.id
             /\ pc' = "fg_close"
             /\ UNCHANGED <<interruptCount, nextJobID, job, fgCmd, aliases,
                            lastErr, lastID>>
    /\ UNCHANGED <<historyFile, signalChan>>

\* close(ch) of an open channel
closeNot(ch) == ch
close(ch) == "closed"

\* foregroundJob: close(job.stopChan); closing a closed channel panics
foregroundJob_close ==
    /\ UNCHANGED <<pipeVars, histVars>>
    /\ pc = "fg_close"
    /\ IF job[fgJob].stopChan = "closed"
       THEN /\ pc' = "panicked"
            /\ UNCHANGED job
       ELSE /\ pc' = "fg_wait"
            /\ job' = [job EXCEPT ![fgJob].stopChan = close(@)]
    /\ UNCHANGED <<history, historyFile, interruptCount, signalChan, jobs,
                   nextJobID, fgJob, fgCmd, aliases, lastErr, lastID, log>>

\* when a cmd.Wait() on a started process returns: once the process has ended,
\* whether this call collects the status or another wait has taken it
waitReturnsNow(proc) == TRUE
waitReturns(proc) == proc # "running"

\* foregroundJob: job.cmd.Wait() returns once the process has ended, with its
\* status or, when another wait has taken it, with an error; fg returns nil
foregroundJob_wait ==
    /\ UNCHANGED <<pipeVars, histVars>>
    /\ pc = "fg_wait"
    /\ waitReturns(job[fgJob].proc)
    /\ job' = [job EXCEPT ![fgJob].proc = IF @ = "zombie" THEN "fg" ELSE @,
                          ![fgJob].outcome = IF job[fgJob].proc = "zombie"
                                             THEN NoOutcome ELSE @]
    /\ fgJob' = 0
    /\ Returned("")
    /\ UNCHANGED <<history, historyFile, signalChan, jobs, nextJobID, fgCmd,
                   aliases, log>>

\* backgroundJob's test job.status != "Stopped"
resumableAny(st) == TRUE
resumable(st) == st = Stopped

\* backgroundJob
backgroundJob ==
    /\ UNCHANGED <<pipeVars, histVars>>
    /\ LineRead
    /\ \E a \in JobArgs :
        IF a.argc # 2
        THEN /\ Returned("bg: invalid syntax")
             /\ UNCHANGED job
        ELSE IF ~a.numeric
        THEN /\ Returned("bg: invalid job ID")
             /\ UNCHANGED job
        ELSE IF ~lookup(jobs, a.id)
        THEN /\ ReturnedFor("bg: job not found", a.id)
             /\ UNCHANGED job
        ELSE IF ~resumable(job[a.id].status)
        THEN /\ ReturnedFor("bg: job is not stopped", a.id)
             /\ UNCHANGED job
        ELSE /\ job' = [job EXCEPT ![a.id].status = Running]
             /\ Returned("")
    /\ UNCHANGED <<historyFile, signalChan, jobs, nextJobID, fgJob, fgCmd,
                   aliases, log>>

\* the process of a background job ends; the kernel raises SIGCHLD
jobExit(id) ==
    /\ UNCHANGED <<pipeVars, histVars>>
    /\ Alive
    /\ job[id].proc = "running"
    /\ \E o \in Outcomes :
         job' = [job EXCEPT ![id].proc = "zombie", ![id].outcome = o]
    /\ signalChan' = notify(signalChan, "SIGCHLD")
    /\ UNCHANGED <<pc, history, historyFile, interruptCount, jobs,
                   nextJobID, fgJob, fgCmd, aliases, lastErr, lastID, log>>

\* waitForJob: err := job.cmd.Wait() returns
waitForJob_Wait(id) ==
    /\ UNCHANGED <<pipeVars, histVars>>
    /\ Alive
    /\ job[id].wpc = "wait"
    /\ job[id].proc # "running"
    /\ job' = [job EXCEPT ![id].err = cmdWait(job[id].proc, job[id].outcome),
                          ![id].proc = IF @ = "zombie" THEN "waiter" ELSE @,
                          ![id].wpc = "select"]
    /\ UNCHANGED <<pc, history, historyFile, interruptCount, signalChan,
                   jobs, nextJobID, fgJob, fgCmd, aliases, lastErr, lastID, log>>

\* the select: return if stopChan is closed, else take the default branch
selectStopAlways(ch) == "done"
selectStop(ch) == IF ch = "closed" THEN "done" ELSE "write"

\* waitForJob: select { case <-job.stopChan: return; default: ... }
waitForJob_Select(id) ==
    /\ UNCHANGED <<pipeVars, histVars>>
    /\ Alive
    /\ job[id].wpc = "select"
    /\ job' = [job EXCEPT ![id].wpc = selectStop(job[id].stopChan),
                          ![id].err = IF selectStop(job[id].stopChan) = "done"
                                      THEN <<"nil">> ELSE @]
    /\ UNCHANGED <<pc, history, historyFile, interruptCount, signalChan,
                   jobs, nextJobID, fgJob, fgCmd, aliases, lastErr, lastID, log>>

\* waitForJob, default branch: job.status = ..., then the notification
\* fmt.Printf("[%d]+ %s\t%s\n", job.jobID, job.status, job.cmd.Args[0])
waitForJob_Report(id) ==
    /\ UNCHANGED <<pipeVars, histVars>>
    /\ Alive
    /\ job[id].wpc = "write"
    /\ job' = [job EXCEPT ![id].status = statusOf(job[id].err),
                          ![id].err = <<"nil">>,
                          ![id].notes = @ + 1,
                          ![id].wpc = "done"]
    /\ UNCHANGED <<pc, history, historyFile, interruptCount, signalChan,
                   jobs, nextJobID, fgJob, fgCmd, aliases, lastErr, lastID, log>>

\* Ctrl-C or Ctrl-Z while a command holds the terminal (at the prompt readline
\* has the terminal in raw mode and Ctrl-C comes back as ErrInterrupt instead)
Signal ==
    /\ UNCHANGED <<pipeVars, histVars>>
    /\ pc \in {"run", "fg_close", "fg_wait"}
    /\ \E sig \in {"SIGINT", "SIGTSTP"} : signalChan' = notify(signalChan, sig)
    /\ UNCHANGED <<pc, history, historyFile, interruptCount, jobVars>>

\* reapChildren: the loop of syscall.Wait4(-1, nil, WNOHANG, nil) takes the exit
\* status of every child that has ended and is not yet waited for, whoever
\* else is waiting for it, and breaks when there is none left
reapChildren(jb) ==
    [id \in DOMAIN jb |-> IF jb[id].proc = "zombie"
                          THEN [jb[id] EXCEPT !.proc = "reaper", !.outcome = NoOutcome]
                          ELSE jb[id]]

\* the same sweep, on the process of the foreground cmd.Run()
reapForeground(c) == IF c = "zombie" THEN "reaped" ELSE c

\* handleSignals: one iteration of for sig := range s.signalChan; SIGINT and
\* SIGTSTP only print, SIGCHLD runs reapChildren.  The sweep is one step: a
\* child a waiter collects during the sweep is a child it collects before it.
jobHandleSignals ==
    /\ UNCHANGED <<pipeVars, histVars>>
    /\ Alive
    /\ signalChan # <<>>
    /\ signalChan' = Tail(signalChan)
    /\ IF Head(signalChan) = "SIGCHLD"
       THEN /\ job' = reapChildren(job)
            /\ fgCmd' = reapForeground(fgCmd)
       ELSE UNCHANGED <<job, fgCmd>>
    /\ UNCHANGED <<pc, history, historyFile, interruptCount, jobs,
                   nextJobID, fgJob, aliases, lastErr, lastID, log>>

Next ==
    \/ Run_ErrInterrupt
    \/ Run_EOF
    \/ Run_exit
    \/ Run_printError
    \/ Run_builtin
    \/ setAlias
    \/ Run_alias
    \/ listJobs
    \/ runExternal_bg
    \/ runExternal_fg
    \/ fgExit
    \/ runExternal_fgReturn
    \/ foregroundJob
    \/ foregroundJob_close
    \/ foregroundJob_wait
    \/ backgroundJob
    \/ \E id \in IDs : jobExit(id)
    \/ \E id \in IDs : waitForJob_Wait(id)
    \/ \E id \in IDs : waitForJob_Select(id)
    \/ \E id \in IDs : waitForJob_Report(id)
    \/ Signal
    \/ jobHandleSignals

InitPipe ==
    /\ cmds = <<>>
    /\ nPipes = 0
    /\ started = 0
    /\ done = <<>>
    /\ nrecv = 0
    /\ waits = 0
    /\ procs = <<>>
    /\ handlers = <<>>
    /\ forced = FALSE
    /\ intrInCmd = 0
    /\ clean = FALSE
    /\ preCount = 0
    /\ further = 0 - 1

\* no History object has been made and nothing was in the files
InitHist ==
    /\ items = <<>>
    /\ itemsFile = <<>>
    /\ hpc = "new"
    /\ startLen = 0
    /\ added = <<>>
    /\ entered = <<>>

Init == InitShared /\ InitJobs /\ InitPipe /\ InitHist

Spec == Init /\ [][Next]_vars

\* a step of a waitForJob goroutine
waitForJob ==
    \E id \in IDs :
        waitForJob_Wait(id) \/ waitForJob_Select(id) \/ waitForJob_Report(id)

\* the Go scheduler does not leave the runnable waitForJob goroutines waiting
\* for ever: while one of them can take a step, one of them does
FairSpec == Spec /\ WF_vars(waitForJob)

(* ------------------- claims on the job-control shell ------------------- *)

\* the jobIDs registered so far, in order of registration
Assigned == SelectSeq(log, LAMBDA e : e[1] = "register")
Registered == {log[i][2] : i \in {k \in 1..Len(log) : log[k][1] = "register"}}
Reclaimed == {log[i][2] : i \in {k \in 1..Len(log) : log[k][1] = "reclaim"}}

\* fg has deleted the job from s.jobs and closed its stopChan
ReclaimDone(id) == id \in Reclaimed /\ job[id].stopChan = "closed"

\* C1: once fg has reclaimed a job (deleted it from the table and closed its
\* stopChan), no step changes the job's status or prints a notification for it.
C1_NoReportAfterReclaim ==
    [][\A id \in IDs :
         ReclaimDone(id) =>
            /\ job'[id].status = job[id].status
            /\ job'[id].notes = job[id].notes]_vars

\* C2: the first jobID registered is 1, and every jobID registered is greater
\* than all registered before it (so none is assigned twice), fg or no fg.
C2_IdsIncrease ==
    /\ Assigned # <<>> => Assigned[1][2] = 1
    /\ \A i, j \in 1..Len(Assigned) : i < j => Assigned[i][2] < Assigned[j][2]

\* C2 witness: a job was registered after fg had removed an earlier one.
C2_Witness ==
    \E i, j \in 1..Len(log) :
        /\ i < j
        /\ log[i][1] = "reclaim"
        /\ log[j][1] = "register"
        /\ log[j][2] > log[i][2]

\* C3: the table holds exactly the jobIDs registered and not reclaimed by fg.
C3_TableIsRegisteredMinusReclaimed == jobs = Registered \ Reclaimed

\* C3 witness: a job whose process has ended and whose waiter has reported is
\* still in the table with its terminal status, while another job was reclaimed
\* and its waiter has run to its end.
C3_Witness ==
    /\ \E id \in jobs : job[id].wpc = "done" /\ job[id].status # Running
    /\ \E id \in Reclaimed : job[id].wpc = "done" /\ ReclaimDone(id)

\* the status the specification gives a job whose process ended with outcome o
Expected(o) ==
    IF o = <<"ok">> THEN Done
    ELSE IF o[1] = "exit" THEN Exited(o[2])
    ELSE Errored

\* C4: when the waiter of a job that was never reclaimed has collected the
\* exit status and reported, the job's status is Done for a process that
\* completed normally, Exited(c) for one that exited with code c, Errored for
\* one that was killed.
C4_StatusMatchesOutcome ==
    \A id \in jobs :
        (job[id].wpc = "done" /\ job[id].notes = 1 /\ job[id].proc = "waiter") =>
            job[id].status = Expected(job[id].outcome)

\* C12: no goroutine of the job-control shell panics: whatever the lines
\* read, the Run loop is reading, executing a command, or has left through
\* exit, end of input or a double interrupt.
C12_LoopNeverCrashes == pc # "panicked"

NotFoundErrs == {"fg: job not found", "bg: job not found"}

\* C13: a fg or bg call that returns the not-found error was given an id that
\* is not in the table, and its step leaves the table, every job's status and
\* stop channel and nextJobID as they were; fg goes on to reclaim, and bg on
\* to test the status, only for an id that is in the table.
C13_NotFoundChangesNothing ==
    [][/\ (pc = "readline" /\ pc' = "failed" /\ lastErr' \in NotFoundErrs) =>
            /\ lastID' \notin jobs
            /\ jobs' = jobs
            /\ nextJobID' = nextJobID
            /\ DOMAIN job' = DOMAIN job
            /\ \A id \in IDs : /\ job'[id].status = job[id].status
                               /\ job'[id].stopChan = job[id].stopChan
       /\ (pc = "readline" /\ pc' = "fg_close") => fgJob' \in jobs
       /\ (pc = "readline" /\ pc' = "failed"
             /\ lastErr' = "bg: job is not stopped") => lastID' \in jobs]_vars

\* C13 witness: fg or bg has just returned the not-found error for the id
\* of a job that an earlier fg had removed from the table.
C13_Witness ==
    /\ pc = "failed"
    /\ lastErr \in NotFoundErrs
    /\ lastID \in Reclaimed

\* the waiter of job id is past its select and has job.status still to write
WaiterWriting(id) == job[id].wpc = "write"

\* the Run goroutine is inside foregroundJob on job id: it has deleted the job
\* from s.jobs and has close(job.stopChan) still to do
LoopModifying(id) == pc = "fg_close" /\ fgJob = id

\* C14: no job has its waiter about to write the status while the control
\* loop is in the middle of modifying the table entry and record of that job.
C14_MutualExclusion ==
    \A id \in IDs : ~(WaiterWriting(id) /\ LoopModifying(id))

\* Done, Exited (c) and Errored are the terminal statuses
IsTerminal(st) == st[1] \in {"Done", "Exited", "Errored"}

\* C15: a job record is created Running; a status changes only from Running
\* to Stopped or a terminal status, or from Stopped to Running or a terminal
\* status, so a terminal status stays; and a bg call that returns `job is not
\* stopped` was given a job that is not Stopped and changes no job record.
C15_StatusStateMachine ==
    [][/\ \A id \in DOMAIN job' :
            IF id \notin IDs
            THEN job'[id].status = Running
            ELSE job'[id].status # job[id].status =>
                    \/ /\ job[id].status = Running
                       /\ job'[id].status = Stopped \/ IsTerminal(job'[id].status)
                    \/ /\ job[id].status = Stopped
                       /\ job'[id].status = Running \/ IsTerminal(job'[id].status)
       /\ (pc = "readline" /\ pc' = "failed"
             /\ lastErr' = "bg: job is not stopped") =>
                (job[lastID'].status # Stopped /\ job' = job)]_vars

\* C15 witness: the waiter of a job has taken it from Running to a terminal
\* status, and a bg call on that job has just been refused.
C15_Witness ==
    /\ pc = "failed"
    /\ lastErr = "bg: job is not stopped"
    /\ lastID \in jobs
    /\ IsTerminal(job[lastID].status)

\* C16: the reap sweep has taken the exit status of no background job's
\* process, and of no foreground command's process: each status goes to the
\* job's waiter, to fg's Wait or to cmd.Run().
C16_ReaperTakesNoAwaitedStatus ==
    /\ \A id \in IDs : job[id].proc # "reaper"
    /\ fgCmd # "reaped"

\* job id is in the table and its process has ended
EndedInTable(id) == id \in jobs /\ job[id].proc # "running"

\* job id has a terminal status and one notification line was printed for it
Reported(id) == id \in IDs /\ IsTerminal(job[id].status) /\ job[id].notes = 1

\* C17: while the shell runs, a job in the table whose process has ended gets
\* a terminal status and its notification line, unless fg takes it from the
\* table first; and no job ever has more than one notification line.
C17_EndedJobIsReported ==
    /\ \A id \in 1..MaxJobs :
         EndedInTable(id) ~> (Reported(id) \/ id \notin jobs \/ ~Alive)
    /\ [](\A id \in IDs : job[id].notes <= 1)

\* C17 witness: a job never reclaimed, whose exit status the reap sweep took,
\* has its terminal status and its one notification line.
C17_Witness ==
    \E id \in jobs : Reported(id) /\ job[id].proc = "reaper"

\* C18: the stopChan of a job in the table is open; the stopChan of a job fg
\* has removed from the table is closed, from the close that follows the
\* delete on; and foregroundJob never closes a stopChan that is closed (the
\* panic of a second close does not happen).
C18_StopChanClosedOnReclaim ==
    /\ \A id \in jobs : job[id].stopChan = "open"
    /\ \A id \in Reclaimed :
         job[id].stopChan = "closed" \/ (pc = "fg_close" /\ fgJob = id)
    /\ ~(pc = "panicked" /\ fgJob # 0)

\* C18 witness: fg has reclaimed a job and closed its stopChan, and a second
\* fg on the same job has returned without closing it again.
C18_Witness ==
    /\ pc = "failed"
    /\ lastErr = "fg: job not found"
    /\ lastID \in Reclaimed
    /\ job[lastID].stopChan = "closed"

\* handleSignals takes SIGTSTP off s.signalChan in this step, while the
\* process of a foreground command is running
StopSignalTaken ==
    /\ pc = "run"
    /\ fgCmd = "running"
    /\ signalChan # <<>>
    /\ Head(signalChan) = "SIGTSTP"
    /\ signalChan' = Tail(signalChan)

\* C20: the step in which handleSignals handles a SIGTSTP that arrived during
\* a foreground command leaves a job with the status Stopped in the table.
C20_StopSignalRecorded ==
    [][StopSignalTaken =>
         \E id \in jobs' : job'[id].status = Stopped]_vars

\* C21: no job record ever has the status Stopped, and no step sets a status
\* to Running: the only Running is the one a job is created with, so bg never
\* resumes a job.
C21_NeverStopped ==
    /\ [](\A id \in IDs : job[id].status # Stopped)
    /\ [][\A id \in IDs :
            job'[id].status = Running => job[id].status = Running]_vars

\* C21 witness: bg on a job that is in the table and Running has just been
\* refused with `job is not stopped`.
C21_Witness ==
    /\ pc = "failed"
    /\ lastErr = "bg: job is not stopped"
    /\ lastID \in jobs
    /\ job[lastID].status = Running

\* C22: foregroundJob leaves its cmd.Wait() only when the process of the job
\* it works on has ended, whatever the job's waitForJob goroutine has done.
C22_FgWaitsForExit ==
    [][(pc = "fg_wait" /\ pc' # "fg_wait") => job[fgJob].proc # "running"]_vars

\* C22 witness: fg has returned to the control loop for a job whose waiter
\* was still in its own cmd.Wait(): the fg call collected the exit.
C22_Witness ==
    /\ pc = "readline"
    /\ \E id \in Reclaimed : job[id].proc = "fg" /\ job[id].wpc = "wait"

\* C23: the process of every background job has its stdin and its stdout on
\* the null device and its stderr on the shell's own stderr.
C23_BackgroundStreams ==
    \A id \in IDs :
        /\ job[id].stdin = "os.DevNull"
        /\ job[id].stdout = "os.DevNull"
        /\ job[id].stderr = "os.Stderr"

(* ========================= the pipeline shell ========================= *)

\* what one '|'-separated segment of a line is, after TrimSpace and Fields:
\* blank, a program that starts, a program whose Start fails, or a builtin
Segments == {"", "prog", "bad", "cd", "history", "exit"}

\* strings.Split(input, "|") of a trimmed, non-blank line: one segment or more,
\* and a line of one segment is not blank
Lines ==
    UNION {[1..n -> Segments] : n \in 1..MaxStages} \ {<<"">>}

\* a stream of a command: 0 is the shell's own (os.Stdin, os.Stdout), k > 0 is
\* the pipe the k-th cmd.StdoutPipe() call of the line made
Cmd(prog, in, out) == [prog |-> prog, stdin |-> in, stdout |-> out]

\* executeCommand's loop over commands, from segment i on (i counts from 1, so
\* the source's i < len(commands)-1 reads i < Len(segs))
RECURSIVE build(_, _, _, _, _)
build(segs, i, cs, inputPipe, pipes) ==
    IF i > Len(segs)
    THEN [kind |-> "run", cmds |-> cs, pipes |-> pipes]
    ELSE IF segs[i] = ""
    THEN build(segs, i + 1, cs, inputPipe, pipes)
    ELSE IF segs[i] = "exit"
    THEN [kind |-> "exit", cmds |-> cs, pipes |-> pipes]
    ELSE IF segs[i] \in {"history", "cd"}
    THEN [kind |-> "return", cmds |-> cs, pipes |-> pipes]
    ELSE IF i < Len(segs)
    THEN build(segs, i + 1, Append(cs, Cmd(segs[i], inputPipe, pipes + 1)),
               pipes + 1, pipes + 1)
    ELSE build(segs, i + 1, Append(cs, Cmd(segs[i], inputPipe, 0)),
               inputPipe, pipes)

\* executeCommand up to its call of runCommands
executeCommand(segs) == build(segs, 1, <<>>, 0, 0)

\* what executeCommand makes of the lines: lines that build the same cmds, or
\* end in the same builtin, are one case
Built == {executeCommand(segs) : segs \in Lines}

\* the line being executed: every line read is appended to the history
CurLine == Len(history)

\* no handleSignals goroutine is between taking a signal and counting it
NoneInFlight == \A h \in DOMAIN handlers : handlers[h].pc # "incr"

IdleHandler == [pc |-> "recv", val |-> 0, during |-> 0]

\* executeCommand returned to Run: the error is printed if there is one, the
\* counter is cleared and the loop goes back to reading
PipeReturned(wasClean) ==
    /\ pc' = "readline"
    /\ interruptCount' = resetInterrupt(interruptCount)
    /\ cmds' = <<>>
    /\ nPipes' = 0
    /\ started' = 0
    /\ done' = <<>>
    /\ nrecv' = 0
    /\ waits' = 0
    /\ intrInCmd' = 0
    /\ clean' = FALSE
    /\ further' = IF wasClean THEN 0 ELSE 0 - 1

\* Run: a line is read, added to the history and handed to executeCommand,
\* which exits, returns from a builtin, or builds cmds and calls runCommands
pipeRun ==
    /\ UNCHANGED <<jobVars, histVars>>
    /\ pc = "readline"
    /\ Len(history) < MaxPipeLines
    /\ history' = addToHistory(history, "line")
    /\ preCount' = interruptCount
    /\ \E r \in Built :
        IF r.kind = "exit"
        THEN /\ historyFile' = saveHistory(history')
             /\ pc' = "exited"
             /\ UNCHANGED <<interruptCount, cmds, nPipes, started, done, nrecv,
                            waits, intrInCmd, clean, further>>
        ELSE IF r.kind = "return"
        THEN /\ PipeReturned(NoneInFlight)
             /\ UNCHANGED historyFile
        ELSE /\ pc' = "start"
             /\ cmds' = r.cmds
             /\ nPipes' = r.pipes
             /\ started' = 0
             /\ done' = <<>>
             /\ nrecv' = 0
             /\ waits' = 0
             /\ intrInCmd' = 0
             /\ clean' = NoneInFlight
             /\ UNCHANGED <<historyFile, interruptCount, further>>
    /\ UNCHANGED <<signalChan, procs, handlers, forced>>

\* Run: the line read is blank, or ReadString failed: continue
pipeRun_skip ==
    /\ pc = "readline"
    /\ UNCHANGED vars

\* the processes of line l still running
Live(l) == IF l \in DOMAIN procs THEN procs[l].live ELSE 0

\* procs with line l's Start loop marked as ended in how
Launched(l, how) ==
    IF l \in DOMAIN procs THEN [procs EXCEPT ![l].launch = how] ELSE procs

\* runCommands: cmd.Start() of the next stage; a failure returns the error
runCommands_Start ==
    /\ UNCHANGED <<jobVars, histVars>>
    /\ pc = "start"
    /\ started < Len(cmds)
    /\ IF cmds[started + 1].prog = "bad"
       THEN /\ procs' = Launched(CurLine, "failed")
            /\ PipeReturned(clean)
       ELSE /\ procs' = (CurLine :> [live |-> Live(CurLine) + 1, launch |-> "starting"])
                        @@ procs
            /\ started' = started + 1
            /\ UNCHANGED <<pc, interruptCount, cmds, nPipes, done, nrecv, waits,
                           intrInCmd, clean, further>>
    /\ UNCHANGED <<history, historyFile, signalChan, handlers, forced, preCount>>

\* the range loop over cmds has ended: Start was called on n stages of cs
startedEarly(n, cs) == n >= 1
allStarted(n, cs) == n = Len(cs)

\* runCommands: every stage is started; make(chan error, len(cmds)), one
\* goroutine per cmd sending cmd.Wait() to done, and go s.handleSignals(cmds);
\* with no cmds the receive loop that follows ends at once
runCommands_Spawn ==
    /\ UNCHANGED <<jobVars, histVars>>
    /\ pc = "start"
    /\ allStarted(started, cmds)
    /\ procs' = Launched(CurLine, "ok")
    /\ handlers' = (CurLine :> IdleHandler) @@ handlers
    /\ IF Len(cmds) = 0
       THEN PipeReturned(clean)
       ELSE /\ pc' = "collect"
            /\ waits' = Len(cmds)
            /\ UNCHANGED <<interruptCount, cmds, nPipes, started, done, nrecv,
                           intrInCmd, clean, further>>
    /\ UNCHANGED <<history, historyFile, signalChan, forced, preCount>>

\* a child process of line l ends; for a stage of the pipeline runCommands is
\* running, the goroutine waiting on it sends the result of cmd.Wait() to done
pipeExit(l) ==
    /\ UNCHANGED <<jobVars, histVars>>
    /\ Alive
    /\ procs' = IF procs[l].live = 1
                THEN [k \in DOMAIN procs \ {l} |-> procs[k]]
                ELSE [procs EXCEPT ![l].live = @ - 1]
    /\ \E res \in {"nil", "err"} :
        done' = IF l = CurLine /\ pc \in {"start", "collect"}
                THEN Append(done, res)
                ELSE done
    /\ UNCHANGED <<pc, history, historyFile, interruptCount, signalChan, cmds,
                   nPipes, started, nrecv, waits, handlers, forced,
                   intrInCmd, clean, preCount, further>>

\* runCommands: one err := <-done of the loop for range cmds; an error returns
\* at once, the last nil returns nil
runCommands_Collect ==
    /\ UNCHANGED <<jobVars, histVars>>
    /\ pc = "collect"
    /\ done # <<>>
    /\ IF Head(done) = "err" \/ nrecv + 1 = Len(cmds)
       THEN PipeReturned(clean)
       ELSE /\ nrecv' = nrecv + 1
            /\ done' = Tail(done)
            /\ UNCHANGED <<pc, interruptCount, cmds, nPipes, started, waits,
                           intrInCmd, clean, further>>
    /\ UNCHANGED <<history, historyFile, signalChan, procs, handlers, forced,
                   preCount>>

\* Ctrl-C: the runtime hands SIGINT to signal.Notify's channel
Interrupt ==
    /\ UNCHANGED <<jobVars, histVars>>
    /\ Alive
    /\ signalChan' = notify(signalChan, "SIGINT")
    /\ UNCHANGED <<pc, history, historyFile, interruptCount, cmds, nPipes,
                   started, done, nrecv, waits, procs, handlers, forced,
                   intrInCmd, clean, preCount, further>>

\* handleSignals(cmds): a goroutine takes the next signal off s.signalChan and
\* reads s.interruptCount, the first half of s.interruptCount++
handleSignals_Recv(h) ==
    /\ UNCHANGED <<jobVars, histVars>>
    /\ Alive
    /\ handlers[h].pc = "recv"
    /\ signalChan # <<>>
    /\ signalChan' = Tail(signalChan)
    /\ handlers' = [handlers EXCEPT ![h] =
                      [pc |-> "incr", val |-> interruptCount,
                       during |-> IF pc = "collect" THEN CurLine ELSE 0]]
    /\ intrInCmd' = IF pc \in {"start", "collect"} THEN intrInCmd + 1 ELSE intrInCmd
    /\ clean' = FALSE
    /\ further' = IF further >= 0 THEN further + 1 ELSE further
    /\ UNCHANGED <<pc, history, historyFile, interruptCount, cmds, nPipes,
                   started, done, nrecv, waits, procs, forced, preCount>>

\* handleSignals(cmds): the write of s.interruptCount++, then the test
\* s.interruptCount >= 2: "Forced exit", saveHistory, os.Exit(1)
handleSignals_Incr(h) ==
    /\ UNCHANGED <<jobVars, histVars>>
    /\ Alive
    /\ handlers[h].pc = "incr"
    /\ interruptCount' = handlers[h].val + 1
    /\ IF interruptCount' >= 2
       THEN /\ historyFile' = saveHistory(history)
            /\ pc' = "exited"
            /\ forced' = TRUE
            /\ UNCHANGED handlers
       ELSE /\ handlers' = [handlers EXCEPT ![h].pc = "forward"]
            /\ UNCHANGED <<historyFile, pc, forced>>
    /\ UNCHANGED <<history, signalChan, cmds, nPipes, started, done, nrecv,
                   waits, procs, intrInCmd, clean, preCount, further>>

\* handleSignals(cmds): cmd.Process.Signal(sig) for each cmd of the pipeline
\* the goroutine was spawned for; a process that has ended gets nothing
handleSignals_Forward(h) ==
    /\ UNCHANGED <<jobVars, histVars>>
    /\ Alive
    /\ handlers[h].pc = "forward"
    /\ handlers' = [handlers EXCEPT ![h] = IdleHandler]
    /\ UNCHANGED <<pc, history, historyFile, interruptCount, signalChan, cmds,
                   nPipes, started, done, nrecv, waits, procs, forced,
                   intrInCmd, clean, preCount, further>>

PipeNext ==
    \/ pipeRun
    \/ pipeRun_skip
    \/ runCommands_Start
    \/ runCommands_Spawn
    \/ \E l \in DOMAIN procs : pipeExit(l)
    \/ runCommands_Collect
    \/ Interrupt
    \/ \E h \in DOMAIN handlers : handleSignals_Recv(h)
    \/ \E h \in DOMAIN handlers : handleSignals_Incr(h)
    \/ \E h \in DOMAIN handlers : handleSignals_Forward(h)

PipeSpec == Init /\ [][PipeNext]_vars

(* -------------------- claims on the pipeline shell --------------------- *)

\* C5: no process of a pipeline whose launch failed (cmd.Start() of some stage
\* returned an error) is running once runCommands has returned that error.
C5_FailedLaunchLeavesNothingRunning ==
    \A l \in DOMAIN procs : ~(procs[l].launch = "failed" /\ procs[l].live > 0)

\* C6: when the control loop is back at reading a line, no stage of a
\* foreground pipeline that was launched in full is still running.
C6_AllStagesExitedBeforeNextRead ==
    pc = "readline" =>
        \A l \in DOMAIN procs : ~(procs[l].launch = "ok" /\ procs[l].live > 0)

\* C7: an interrupt taken off the signal channel while foreground pipeline P
\* is running, and counted as the first, is forwarded to the processes of P:
\* the goroutine forwarding it is the one holding P's cmds.
C7_InterruptForwardedToForeground ==
    \A h \in DOMAIN handlers :
        (handlers[h].pc = "forward" /\ handlers[h].during # 0) =>
            h = handlers[h].during

\* C8: once two interrupts have been taken and counted during one foreground
\* command, the shell has terminated and the history file holds the history.
C8_DoubleInterruptExits ==
    (intrInCmd >= 2 /\ NoneInFlight) =>
        (pc = "exited" /\ historyFile = history)

C10_PipesOneLessThanCommands ==
    (pc \in {"start", "collect"} /\ Len(cmds) >= 1) =>
        /\ nPipes = Len(cmds) - 1
        /\ cmds[1].stdin = 0
        /\ cmds[Len(cmds)].stdout = 0
        /\ \A i \in 1..(Len(cmds) - 1) :
              cmds[i].stdout # 0 /\ cmds[i].stdout = cmds[i + 1].stdin

\* C11: cmd.Wait() is called on a stage of a pipeline only when cmd.Start()
\* has been called on every stage of it.
C11_StartBeforeWait == waits > 0 => started = Len(cmds)

\* C11 witness: Wait has been called on both stages of a two-stage pipeline.
C11_Witness == waits = 2 /\ Len(cmds) = 2 /\ started = 2

\* C19: at most one handleSignals goroutine receives from s.signalChan,
\* however many commands have been run.
C19_SingleSignalConsumer == Cardinality(DOMAIN handlers) <= 1

(* ============================ the histories ============================ *)

\* The history of package history (New, load, Add, save) and the history of
\* the job-control shell (loadHistory, addToHistory), each loaded from a file
\* of startLen lines and then added to.  A line of the file is its number; an
\* added line is a negative number.

\* a history file of n lines
File(n) == [i \in 1..n |-> i]

\* the lengths of the history file at start-up: none or empty, and around the
\* maximum
FileLens == {0, maxItems - 1, maxItems, maxItems + 1}

\* the lines added
AddItems == {-1, -2}

\* History.load: every line of the file is appended to h.items
load(its, file) == its \o file

\* History.save: the file is rewritten with h.items
save(its) == its

\* History.Add up to its save: append, keep the last maxItems
Add(its, item) ==
    LET a == Append(its, item)
    IN  IF Len(a) > maxItems
        THEN SubSeq(a, Len(a) - maxItems + 1, Len(a))
        ELSE a

\* loadHistory of the job-control shell: the lines of the file (none when it
\* does not exist), cut to the last maxHistorySize
loadHistory(file) ==
    IF Len(file) > maxHistorySize
    THEN SubSeq(file, Len(file) - maxHistorySize + 1, Len(file))
    ELSE file

HistInit ==
    /\ pc = "new"
    /\ history = <<>>
    /\ interruptCount = 0
    /\ signalChan = <<>>
    /\ InitJobs
    /\ InitPipe
    /\ items = <<>>
    /\ hpc = "new"
    /\ added = <<>>
    /\ entered = <<>>
    /\ startLen \in FileLens
    /\ historyFile = File(startLen)
    /\ itemsFile = File(startLen)

\* history.New(file)
History_New ==
    /\ hpc = "new"
    /\ items' = load(items, itemsFile)
    /\ hpc' = "ready"
    /\ UNCHANGED <<pc, history, historyFile, interruptCount, signalChan,
                   jobVars, pipeVars, itemsFile, startLen, added, entered>>

\* h.Add(item)
History_Add ==
    /\ hpc = "ready"
    /\ Len(added) < MaxAdds
    /\ \E item \in AddItems :
          /\ items' = Add(items, item)
          /\ added' = Append(added, item)
    /\ itemsFile' = save(items')
    /\ UNCHANGED <<pc, history, historyFile, interruptCount, signalChan,
                   jobVars, pipeVars, hpc, startLen, entered>>

\* NewShell of the job-control shell: history, err := loadHistory(historyFile)
NewShell_loadHistory ==
    /\ pc = "new"
    /\ history' = loadHistory(historyFile)
    /\ pc' = "readline"
    /\ UNCHANGED <<historyFile, interruptCount, signalChan, jobVars, pipeVars,
                   histVars>>

\* s.addToHistory(command) of the job-control shell
Shell_addToHistory ==
    /\ pc = "readline"
    /\ Len(entered) < MaxAdds
    /\ \E line \in AddItems :
          /\ history' = addToHistory(history, line)
          /\ entered' = Append(entered, line)
    /\ UNCHANGED <<pc, historyFile, interruptCount, signalChan, jobVars,
                   pipeVars, items, itemsFile, hpc, startLen, added>>

HistNext ==
    \/ History_New
    \/ History_Add
    \/ NewShell_loadHistory
    \/ Shell_addToHistory

HistSpec == HistInit /\ [][HistNext]_vars

(* ----------------------- claims on the histories ----------------------- *)

\* the last n entries of s, all of s when it has no more than n
Recent(n, s) == IF Len(s) > n THEN SubSeq(s, Len(s) - n + 1, Len(s)) ELSE s

\* C24: once created, a history holds at most the maximum number of entries,
\* and they are the most recent ones of the file's lines followed by the
\* lines added, in that order; for History and for the shell's s.history.
C24_HistoryIsMostRecent ==
    /\ hpc = "ready" =>
          /\ Len(items) <= maxItems
          /\ items = Recent(maxItems, File(startLen) \o added)
    /\ pc = "readline" =>
          /\ Len(history) <= maxHistorySize
          /\ history = Recent(maxHistorySize, File(startLen) \o entered)

\* the part of C24 on the job-control shell's s.history
C24_ShellHistoryIsMostRecent ==
    pc = "readline" =>
        /\ Len(history) <= maxHistorySize
        /\ history = Recent(maxHistorySize, File(startLen) \o entered)

====
